---- MODULE Spec2Model ----
(***************************************************************************)
(* Model of models/lipreading/lipreading_model.py: the tensor reshapes,     *)
(* the length-aware temporal average, the two temporal backbones, the       *)
(* Lipreading orchestrator and the build_lipreadingnet factory.             *)
(*                                                                         *)
(* A tensor is a record [shape, data]: data is the row-major (contiguous)   *)
(* storage, shape the list of axis sizes.  Indices are 0-based as in the    *)
(* source.  Element values are integers; a mean is an exact fraction        *)
(* <<num, den>> in lowest terms (<<0, 0>> is the mean of an empty slice).   *)
(***************************************************************************)
EXTENDS Integers, Sequences, FiniteSets, TLC

\* ------------------------------------------------------------------ bounds
MaxB == 2         \* batch sizes 1..MaxB
MaxT == 3         \* sequence lengths 1..MaxT
MaxC == 2         \* channel counts 1..MaxC of the aggregator's input
MaxVal == 1       \* slopes and offsets 0..MaxVal of the aggregator's input
MaxPad == 2       \* padding patterns 1..MaxPad written over the suffix

\* ---------------------------------------------------------- tensor algebra
RECURSIVE Prod(_)
Prod(s) == IF s = <<>> THEN 1 ELSE Head(s) * Prod(Tail(s))

Front(s) == SubSeq(s, 1, Len(s) - 1)
Last(s) == s[Len(s)]

\* row-major offset of the 0-based index idx in a tensor of shape sh
RECURSIVE Offset(_, _)
Offset(sh, idx) ==
  IF sh = <<>> THEN 0
  ELSE Offset(Front(sh), Front(idx)) * Last(sh) + Last(idx)

\* inverse of Offset: the 0-based index of flat position k
RECURSIVE Unravel(_, _)
Unravel(sh, k) ==
  IF sh = <<>> THEN <<>>
  ELSE Append(Unravel(Front(sh), k \div Last(sh)), k % Last(sh))

At(x, idx) == x.data[1 + Offset(x.shape, idx)]

\* build a contiguous tensor of shape sh from an element function of the index
Tensor(sh, f(_)) ==
  [shape |-> sh, data |-> [k \in 1..Prod(sh) |-> f(Unravel(sh, k - 1))]]

Swap(s, i, j) ==
  [k \in 1..Len(s) |-> IF k = i THEN s[j] ELSE IF k = j THEN s[i] ELSE s[k]]

\* torch.Tensor.transpose(d0, d1) followed by making the result contiguous
transpose(x, d0, d1) ==
  LET sh == Swap(x.shape, d0 + 1, d1 + 1)
      elem(idx) == At(x, Swap(idx, d0 + 1, d1 + 1))
  IN Tensor(sh, elem)

\* torch.Tensor.reshape / view on a contiguous tensor: same storage, new shape
reshape(x, sh) == [shape |-> sh, data |-> x.data]

\* view(-1, n): the leading axis is inferred from the element count
view_infer(x, n) == reshape(x, <<Prod(x.shape) \div n, n>>)

\* unsqueeze(-2): a singleton axis inserted before the last axis
unsqueeze_m2(x) ==
  reshape(x, Append(Front(x.shape), 1) \o <<Last(x.shape)>>)

\* x[index] on the leading axis
Index0(x, index) ==
  LET sh == Tail(x.shape)
      n == Prod(sh)
  IN [shape |-> sh, data |-> SubSeq(x.data, index * n + 1, (index + 1) * n)]

Min(a, b) == IF a < b THEN a ELSE b

\* x[:, 0:i] of a 2-D tensor; a Python slice end beyond the axis is clipped
SlicePrefix(x, i) ==
  LET C == x.shape[1]
      n == Min(i, x.shape[2])
      elem(idx) == At(x, idx)
  IN Tensor(<<C, n>>, elem)

RECURSIVE SumSeq(_)
SumSeq(s) == IF s = <<>> THEN 0 ELSE Head(s) + SumSeq(Tail(s))

RECURSIVE GCD(_, _)
GCD(a, b) == IF b = 0 THEN a ELSE GCD(b, a % b)

\* the exact value num/den in lowest terms
Frac(num, den) ==
  IF den = 0 THEN <<0, 0>>
  ELSE LET g == GCD(num, den) IN <<num \div g, den \div g>>

\* torch.mean(x, 1) of a 2-D tensor: one mean per row
mean_dim1(x) ==
  LET C == x.shape[1]
      n == x.shape[2]
      elem(idx) == Frac(SumSeq(SubSeq(x.data, idx[1] * n + 1, (idx[1] + 1) * n)), n)
  IN Tensor(<<C>>, elem)

RECURSIVE Concat(_)
Concat(ss) == IF ss = <<>> THEN <<>> ELSE Head(ss) \o Concat(Tail(ss))

\* torch.stack(list, 0) of equally shaped tensors
stack0(ts) ==
  [shape |-> <<Len(ts)>> \o ts[1].shape,
   data |-> Concat([k \in 1..Len(ts) |-> ts[k].data])]

\* ------------------------------------------------------------- aggregator
\* a plausible slip: the mean taken over the whole time axis, padding included
_average_batch_padded(x, lengths, B) ==
  stack0([k \in 1..Len(lengths) |->
            mean_dim1(SlicePrefix(Index0(x, k - 1), x.shape[3]))])

\* _average_batch(x, lengths, B): B is not used by the source
_average_batch(x, lengths, B) ==
  stack0([k \in 1..Len(lengths) |->
            mean_dim1(SlicePrefix(Index0(x, k - 1), lengths[k]))])

\* ------------------------------------------------- sub-networks (opaque)
\* Width multipliers are written in quarters: 2 is 0.5, 4 is 1.0, 6 is 1.5,
\* 8 is 2.0 (and 3 is 0.75, 10 is 2.5).
\* a plausible slip: a range check in place of the membership test
WidthMults_range == {2, 3, 4, 6, 8}

WidthMults == {2, 4, 6, 8}

\* scaled-down sizes: the source's 24, 96, 1024 and 256
FrontendNout == 2   \* frontend_nout, the front-end's output channels
ClipSize == 2       \* height and width of a clip frame
DimUnit == 2        \* the encoder's output width for width_mult below 2.0
HiddenDim == 1      \* hidden_dim, the backbone's base channel width

\* Conv3d(kernel (5,7,7), stride (1,2,2), padding (2,3,3)) and
\* MaxPool3d(kernel (1,3,3), stride (1,2,2), padding (0,1,1))
ConvKT == 5
ConvKS == 7
ConvPadT == 2
ConvPadS == 3
PoolKS == 3
PoolPadS == 1
SpatialStride == 2

Max(a, b) == IF a > b THEN a ELSE b

\* sum and maximum of f over lo..hi
SumRange(lo, hi, f(_)) == SumSeq([k \in 1..(hi - lo + 1) |-> f(lo + k - 1)])

RECURSIVE MaxSeq(_)
MaxSeq(s) == IF Len(s) = 1 THEN s[1] ELSE Max(Head(s), MaxSeq(Tail(s)))

MaxRange(lo, hi, f(_)) == MaxSeq([k \in 1..(hi - lo + 1) |-> f(lo + k - 1)])

\* output size of a strided window along one axis
OutSize(n, k, pad, stride) == (n + 2 * pad - k) \div stride + 1

\* frontend3D: Conv3d without bias, weight (c + 1 + dt) at temporal tap dt of
\* output channel c; BatchNorm3d with unit statistics and the activation are
\* the identity on the non-negative values used; then MaxPool3d.
frontend3D(x) ==
  LET B == x.shape[1]
      T == x.shape[3]
      H == x.shape[4]
      W == x.shape[5]
      Tc == OutSize(T, ConvKT, ConvPadT, 1)
      Hc == OutSize(H, ConvKS, ConvPadS, SpatialStride)
      Wc == OutSize(W, ConvKS, ConvPadS, SpatialStride)
      conv(b, c, t, i, j) ==
        SumRange(Max(0, t - ConvPadT), Min(T - 1, t - ConvPadT + ConvKT - 1),
          LAMBDA tt :
            SumRange(Max(0, SpatialStride * i - ConvPadS),
                     Min(H - 1, SpatialStride * i - ConvPadS + ConvKS - 1),
              LAMBDA ii :
                SumRange(Max(0, SpatialStride * j - ConvPadS),
                         Min(W - 1, SpatialStride * j - ConvPadS + ConvKS - 1),
                  LAMBDA jj :
                    (c + 1 + (tt - t + ConvPadT)) * At(x, <<b, 0, tt, ii, jj>>))))
      Hp == OutSize(Hc, PoolKS, PoolPadS, SpatialStride)
      Wp == OutSize(Wc, PoolKS, PoolPadS, SpatialStride)
      pool(idx) ==
        MaxRange(Max(0, SpatialStride * idx[4] - PoolPadS),
                 Min(Hc - 1, SpatialStride * idx[4] - PoolPadS + PoolKS - 1),
          LAMBDA ii :
            MaxRange(Max(0, SpatialStride * idx[5] - PoolPadS),
                     Min(Wc - 1, SpatialStride * idx[5] - PoolPadS + PoolKS - 1),
              LAMBDA jj : conv(idx[1], idx[2], idx[3], ii, jj)))
  IN Tensor(<<B, FrontendNout, Tc, Hp, Wp>>, pool)

\* ShuffleNetV2's last stage width: 1024, or 2048 for width multiplier 2.0
StageOutChannels(width_mult) == IF width_mult = 8 THEN 2 * DimUnit ELSE DimUnit

\* trunk (features, conv_last, globalpool): every row of the batch is encoded
\* on its own into D features, shape [N, D, 1, 1]
trunk(x, D) ==
  LET C == x.shape[2]
      H == x.shape[3]
      W == x.shape[4]
      elem(idx) ==
        idx[2] +
        SumRange(0, C - 1, LAMBDA c :
          SumRange(0, H - 1, LAMBDA i :
            SumRange(0, W - 1, LAMBDA j :
              (c + 1) * At(x, <<idx[1], c, i, j>>))))
  IN Tensor(<<x.shape[1], D, 1, 1>>, elem)

\* tcn_trunk (TemporalConvNet): [B, D, T] to [B, Cout, T], each output a
\* weighted sum over the input channels at t and at t-1
tcn_trunk(x, Cout) ==
  LET D == x.shape[2]
      col(b, t) == SumRange(0, D - 1, LAMBDA d : At(x, <<b, d, t>>))
      elem(idx) ==
        (idx[2] + 1) * col(idx[1], idx[3])
          + (IF idx[3] > 0 THEN col(idx[1], idx[3] - 1) ELSE 0)
  IN Tensor(<<x.shape[1], Cout, x.shape[3]>>, elem)

\* mb_ms_tcn (MultibranchTemporalConvNet): [B, D, T] to [B, Cout, T], the
\* branches concatenated along the channel axis
mb_ms_tcn(x, Cout) ==
  LET D == x.shape[2]
      T == x.shape[3]
      col(b, t) == SumRange(0, D - 1, LAMBDA d : At(x, <<b, d, t>>))
      elem(idx) ==
        (idx[2] + 2) * col(idx[1], idx[3])
          + (IF idx[3] + 1 < T THEN col(idx[1], idx[3] + 1) ELSE 0)
  IN Tensor(<<x.shape[1], Cout, T>>, elem)

\* tcn_output (nn.Linear): [B, C] to [B, num_classes]
tcn_output(x, num_classes) ==
  LET elem(idx) == <<idx[2], x.shape[2]>>
  IN Tensor(<<x.shape[1], num_classes>>, elem)

\* ------------------------------------------------------------- reshapes
\* a plausible slip: the batch and time axes merged without the transpose
threeD_to_2D_tensor_flat(x) ==
  reshape(x, <<x.shape[1] * x.shape[3], x.shape[2], x.shape[4], x.shape[5]>>)

threeD_to_2D_tensor(x) ==
  LET n_batch == x.shape[1]
      n_channels == x.shape[2]
      s_time == x.shape[3]
      sx == x.shape[4]
      sy == x.shape[5]
  IN reshape(transpose(x, 1, 2), <<n_batch * s_time, n_channels, sx, sy>>)

\* ------------------------------------------------------------- backbones
\* the value a Python call leaves behind: returned tensors or a raised error
Returned(ret, calls) == [status |-> "returned", err |-> "none", ret |-> ret, calls |-> calls]
Raised(err, calls) == [status |-> "raised", err |-> err, ret |-> <<>>, calls |-> calls]

\* consensus_func applied to x; x[index] past the batch raises IndexError
ConsensusRaises(x, lengths) == Len(lengths) > x.shape[1]

\* a plausible slip: the branches never run, whatever the flag
MultiscaleMultibranchTCN_forward_raw(net, x, lengths, B, extract_feats) ==
  Returned(<<unsqueeze_m2(transpose(x, 1, 2))>>, <<>>)

MultiscaleMultibranchTCN_forward(net, x, lengths, B, extract_feats) ==
  IF extract_feats
    THEN Returned(<<unsqueeze_m2(mb_ms_tcn(transpose(x, 1, 2), Last(net.num_channels)))>>,
                  <<"mb_ms_tcn">>)
    ELSE Returned(<<unsqueeze_m2(transpose(x, 1, 2))>>, <<>>)

\* lines 73-74 of TCN.forward, x being the cascade's output
TCN_extract(x, lengths, B) ==
  IF ConsensusRaises(x, lengths)
    THEN Raised("IndexError", <<"tcn_trunk", "consensus_func">>)
    ELSE Returned(<<unsqueeze_m2(x), _average_batch(x, lengths, B)>>,
                  <<"tcn_trunk", "consensus_func">>)

\* lines 77-78, the classification path the source keeps commented out
TCN_classify(net, x, lengths, B) ==
  IF ConsensusRaises(x, lengths)
    THEN Raised("IndexError", <<"consensus_func">>)
    ELSE Returned(<<tcn_output(_average_batch(x, lengths, B), net.num_classes)>>,
                  <<"consensus_func", "tcn_output">>)

\* a plausible slip: the commented-out classification path left active
TCN_forward_head(net, x, lengths, B, extract_feats) ==
  IF extract_feats
    THEN TCN_extract(tcn_trunk(transpose(x, 1, 2), Last(net.num_channels)), lengths, B)
    ELSE TCN_classify(net, transpose(x, 1, 2), lengths, B)

\* a plausible slip: extraction returns the cascade's input instead of its output
TCN_forward_skip(net, x, lengths, B, extract_feats) ==
  IF extract_feats
    THEN TCN_extract(transpose(x, 1, 2), lengths, B)
    ELSE Returned(<<unsqueeze_m2(x)>>, <<>>)

TCN_forward(net, x, lengths, B, extract_feats) ==
  IF extract_feats
    THEN TCN_extract(tcn_trunk(transpose(x, 1, 2), Last(net.num_channels)), lengths, B)
    ELSE Returned(<<unsqueeze_m2(x)>>, <<>>)

\* lengths as the caller passes it: an int or a list
IntLengths(n) == [kind |-> "int", val |-> <<n>>]
ListLengths(l) == [kind |-> "list", val |-> l]

\* ----------------------------------------------------------- construction
NumClasses == 2     \* scaled-down num_classes (500 in the source)

NoNet == [tcn_class |-> "none"]

\* Lipreading.__init__: the outcome, the constructors called, and the network
Lipreading_init(hidden_dim, num_classes, backbone_type, relu_type, tcn_options, width_mult, extract_feats) ==
  IF width_mult \notin WidthMults
    THEN [status |-> "raised", err |-> "AssertionError",
          calls |-> <<"Lipreading">>, net |-> NoNet]
    ELSE LET nk == Len(tcn_options.kernel_size)
             tcn_class == IF nk = 1 THEN "TCN" ELSE "MultiscaleMultibranchTCN"
             cascade == IF nk = 1 THEN "tcn_trunk" ELSE "mb_ms_tcn"
         IN [status |-> "returned", err |-> "none",
             calls |-> <<"Lipreading", "ShuffleNetV2", "trunk", "frontend3D",
                         cascade, "tcn_output">>,
             net |-> [extract_feats |-> extract_feats,
                      backbone_type |-> backbone_type,
                      relu_type |-> relu_type,
                      frontend_nout |-> FrontendNout,
                      backend_out |-> IF width_mult # 8 THEN DimUnit ELSE 2 * DimUnit,
                      stage_out_channels |-> StageOutChannels(width_mult),
                      tcn_class |-> tcn_class,
                      num_channels |->
                        [l \in 1..tcn_options.num_layers |->
                           hidden_dim * nk * tcn_options.width_mult],
                      num_classes |-> num_classes,
                      modules |-> {"trunk", "frontend3D", cascade, "tcn_output"}]]

\* the fields build_lipreadingnet reads, in the order it reads them
TcnFields == <<"tcn_num_layers", "tcn_kernel_size", "tcn_dropout", "tcn_dwpw",
               "tcn_width_mult">>
NetFields == <<"backbone_type", "relu_type", "width_mult">>

\* the first field of fs the record lacks, or "" when it has them all
RECURSIVE FirstMissing(_, _)
FirstMissing(rec, fs) ==
  IF fs = <<>> THEN ""
  ELSE IF Head(fs) \notin DOMAIN rec THEN Head(fs) ELSE FirstMissing(rec, Tail(fs))

BuildRaised(err, calls) ==
  [status |-> "raised", err |-> err, calls |-> calls, weightsLoaded |-> FALSE,
   net |-> NoNet]

\* a plausible slip: a config that cannot be used falls back to a default network
build_lipreadingnet_default(config, weights, extract_feats) ==
  [status |-> "returned", err |-> "none", calls |-> <<"Lipreading">>,
   weightsLoaded |-> FALSE, net |-> NoNet]

\* build_lipreadingnet(config_path, weights, extract_feats).  config is what
\* config_path resolves to: [exists, content, rec], content being "unreadable"
\* (open fails), "notjson" (json.load fails with a JSONDecodeError or a
\* UnicodeDecodeError, both ValueErrors), "notobject" (a JSON value that is no
\* object) or "record"; weights is "", "ok" (a checkpoint that matches) or
\* "bad" (one that cannot be loaded).
build_lipreadingnet(config, weights, extract_feats) ==
  IF ~config.exists
    THEN BuildRaised("UnboundLocalError", <<>>)
  ELSE IF config.content = "unreadable"
    THEN BuildRaised("OSError", <<"load_json">>)
  ELSE IF config.content = "notjson"
    THEN BuildRaised("ValueError", <<"load_json">>)
  ELSE IF config.content = "notobject"
    THEN BuildRaised("TypeError", <<"load_json">>)
  ELSE IF FirstMissing(config.rec, TcnFields \o NetFields) # ""
    THEN BuildRaised("KeyError", <<"load_json">>)
  ELSE
    LET a == config.rec
        tcn_options == [num_layers |-> a["tcn_num_layers"],
                        kernel_size |-> a["tcn_kernel_size"],
                        dropout |-> a["tcn_dropout"],
                        dwpw |-> a["tcn_dwpw"],
                        width_mult |-> a["tcn_width_mult"]]
        r == Lipreading_init(HiddenDim, NumClasses, a["backbone_type"], a["relu_type"],
                             tcn_options, a["width_mult"], extract_feats)
    IN IF r.status = "raised"
         THEN BuildRaised(r.err, <<"load_json">> \o r.calls)
       ELSE IF weights = ""
         THEN [status |-> "returned", err |-> "none",
               calls |-> <<"load_json">> \o r.calls,
               weightsLoaded |-> FALSE, net |-> r.net]
       ELSE IF weights = "bad"
         THEN BuildRaised("RuntimeError", <<"load_json">> \o r.calls \o <<"torch.load">>)
       ELSE [status |-> "returned", err |-> "none",
             calls |-> <<"load_json">> \o r.calls \o <<"torch.load", "load_state_dict">>,
             weightsLoaded |-> TRUE, net |-> r.net]

\* ------------------------------------------------------------------ state
VARIABLES
  aggStatus,   \* "idle" | "returned": the direct call of the aggregator
  aggX,        \* its argument x, shape [B, C, T]
  aggLengths,  \* its argument lengths
  aggOut,      \* its return value
  buildArgs,   \* the arguments of build_lipreadingnet
  build,       \* its outcome: status, err, calls, weightsLoaded, net
  fwdClip,     \* the clip given to Lipreading.forward
  fwdLengths,  \* the lengths given to Lipreading.forward
  fwd          \* its outcome: status, err, result, tcnRet, calls, intermediates

vars == <<aggStatus, aggX, aggLengths, aggOut, buildArgs, build, fwdClip, fwdLengths, fwd>>

NoTensor == [shape |-> <<0>>, data |-> <<>>]
Idle == [status |-> "idle"]
NoArgs == [weights |-> "", extract_feats |-> FALSE]

AggIdle ==
  /\ aggStatus = "idle"
  /\ aggX = NoTensor
  /\ aggLengths = <<>>
  /\ aggOut = NoTensor

BuildIdle ==
  /\ buildArgs = NoArgs
  /\ build = Idle

FwdIdle ==
  /\ fwdClip = NoTensor
  /\ fwdLengths = IntLengths(0)
  /\ fwd = Idle

\* ------------------------------------------------ direct aggregator calls
\* x[b, c, t] = a*t + s*b + k*c + alt*(t mod 2): a slope in time, an offset
\* per example and per channel, and an alternating term; a = 1 alone is the
\* time ramp x[b, c, t] = t
AggInput(B, C, T, a, s, k, alt) ==
  LET elem(idx) == a * idx[3] + s * idx[1] + k * idx[2] + alt * (idx[3] % 2)
  IN Tensor(<<B, C, T>>, elem)

AverageBatch ==
  /\ aggStatus = "idle"
  /\ \E B \in 1..MaxB, C \in 1..MaxC, T \in 1..MaxT :
       \E a \in 0..MaxVal, s \in 0..MaxVal, k \in 0..1, alt \in 0..1,
          lengths \in [1..B -> 0..(T + 1)] :
         \E x \in {AggInput(B, C, T, a, s, k, alt)} :
           /\ aggX' = x
           /\ aggLengths' = lengths
           /\ aggOut' = _average_batch(x, lengths, B)
           /\ aggStatus' = "returned"
  /\ UNCHANGED <<buildArgs, build, fwdClip, fwdLengths, fwd>>

InitAgg == AggIdle /\ BuildIdle /\ FwdIdle
NextAgg == AverageBatch
SpecAgg == InitAgg /\ [][NextAgg]_vars

\* -------------------------------------------------------------- the factory
MaxKernels == 2     \* tcn_kernel_size lists of 1..MaxKernels kernels
MaxTcnWidth == 2    \* tcn_width_mult in 1..MaxTcnWidth
MaxLayers == 1      \* tcn_num_layers in 1..MaxLayers

\* width multipliers a config may carry, valid or not (in quarters)
ConfigWidthMults == WidthMults \cup {3, 10}

AllFields == {TcnFields[i] : i \in 1..Len(TcnFields)} \cup {NetFields[i] : i \in 1..Len(NetFields)}

CompleteRecord(layers, nk, tw, bt, relu, wm) ==
  [f \in AllFields |->
     CASE f = "tcn_num_layers" -> layers
       [] f = "tcn_kernel_size" -> [k \in 1..nk |-> 2 * k + 1]
       [] f = "tcn_dropout" -> 0
       [] f = "tcn_dwpw" -> FALSE
       [] f = "tcn_width_mult" -> tw
       [] f = "backbone_type" -> bt
       [] f = "relu_type" -> relu
       [] OTHER -> wm]

Without(rec, missing) == [f \in (DOMAIN rec) \ missing |-> rec[f]]

CompleteRecords ==
  {CompleteRecord(layers, nk, tw, bt, relu, wm) :
     layers \in 1..MaxLayers, nk \in 1..MaxKernels, tw \in 1..MaxTcnWidth,
     bt \in {"shufflenet", "resnet"}, relu \in {"prelu", "relu"},
     wm \in ConfigWidthMults}

NoRecord == [f \in {} |-> 0]

\* what a config path can resolve to
Configs ==
  {[exists |-> FALSE, content |-> "none", rec |-> NoRecord],
   [exists |-> TRUE, content |-> "unreadable", rec |-> NoRecord],
   [exists |-> TRUE, content |-> "notjson", rec |-> NoRecord],
   [exists |-> TRUE, content |-> "notobject", rec |-> NoRecord]}
  \cup {[exists |-> TRUE, content |-> "record", rec |-> Without(r, m)] :
          r \in CompleteRecords, m \in {{}} \cup {{f} : f \in AllFields}}

Build ==
  /\ build = Idle
  /\ \E config \in Configs, weights \in {"", "ok", "bad"}, extract_feats \in BOOLEAN :
       /\ buildArgs' = [config |-> config, weights |-> weights,
                        extract_feats |-> extract_feats]
       /\ build' = build_lipreadingnet(config, weights, extract_feats)
  /\ UNCHANGED <<aggStatus, aggX, aggLengths, aggOut, fwdClip, fwdLengths, fwd>>

InitBuild == AggIdle /\ BuildIdle /\ FwdIdle
NextBuild == Build
SpecBuild == InitBuild /\ [][NextBuild]_vars

\* ----------------------------------------------------------- forward calls
\* a grayscale clip [B, 1, T, H, W] whose frames all differ
Clip(B, T) ==
  LET elem(idx) == 1 + idx[1] * T + idx[3] + idx[4] * idx[5]
  IN Tensor(<<B, 1, T, ClipSize, ClipSize>>, elem)

\* the lengths a caller may pass for a clip of B examples and T frames: an
\* int, a list of B lengths (rising by one and wrapping past T + 1), or a list
\* one longer than the batch
LengthsFor(B, T) ==
  {IntLengths(n) : n \in 0..(T + 1)}
  \cup {ListLengths([i \in 1..B |-> (start + i - 1) % (T + 2)]) : start \in 0..(T + 1)}
  \cup {ListLengths([i \in 1..(B + 1) |-> 1])}

\* the configurations of the networks used in forward calls: one or MaxKernels
\* kernel sizes, encoder width 1.0 or 2.0
FwdRecords ==
  {CompleteRecord(MaxLayers, nk, MaxTcnWidth, bt, "prelu", wm) :
     nk \in {1, MaxKernels},
     bt \in {"shufflenet", "resnet"}, wm \in {4, 8}}

\* the networks the factory returns for them
InitFwd ==
  /\ AggIdle
  /\ FwdIdle
  /\ \E r \in FwdRecords, extract_feats \in BOOLEAN :
       LET config == [exists |-> TRUE, content |-> "record", rec |-> r]
       IN /\ build_lipreadingnet(config, "", extract_feats).status = "returned"
          /\ buildArgs = [config |-> config, weights |-> "", extract_feats |-> extract_feats]
          /\ build = build_lipreadingnet(config, "", extract_feats)

\* Lipreading.forward(x, lengths) on the network net: every statement in
\* order, the intermediate tensors kept with the outcome
Lipreading_forward(net, x, lengths) ==
  \E B \in {x.shape[1]} :
  \E lens \in {IF lengths.kind = "int" THEN [i \in 1..B |-> lengths.val[1]]
               ELSE lengths.val} :
  \E fe \in {frontend3D(x)} :
  \E Tnew \in {fe.shape[3]} :
  \E flat \in {threeD_to_2D_tensor(fe)} :
  \E enc \in {trunk(flat, net.stage_out_channels)} :
  \E enc2 \in {IF net.backbone_type = "shufflenet"
                 THEN view_infer(enc, net.stage_out_channels) ELSE enc} :
  \E seq \in {reshape(enc2, <<B, Tnew, enc2.shape[2]>>)} :
  \E r \in {IF net.tcn_class = "TCN"
              THEN TCN_forward(net, seq, lens, B, net.extract_feats)
              ELSE MultiscaleMultibranchTCN_forward(net, seq, lens, B, net.extract_feats)} :
    fwd' = [status |-> r.status, err |-> r.err, result |-> r.ret, tcnRet |-> r.ret,
            calls |-> <<"frontend3D", "trunk">> \o r.calls,
            lens |-> lens, fe |-> fe, flat |-> flat, enc |-> enc, seq |-> seq]

Forward ==
  /\ build.status = "returned"
  /\ fwd = Idle
  /\ \E B \in 1..MaxB, T \in 1..MaxT :
       \E lengths \in LengthsFor(B, T) :
         \E x \in {Clip(B, T)} :
           /\ fwdClip' = x
           /\ fwdLengths' = lengths
           /\ Lipreading_forward(build.net, x, lengths)
  /\ UNCHANGED <<aggStatus, aggX, aggLengths, aggOut, buildArgs, build>>

NextFwd == Forward
SpecFwd == InitFwd /\ [][NextFwd]_vars

\* ------------------------------------------------------------- claim C1
\* sum of x[i, c, t] over t in 0..n-1, by recursion on n
RECURSIVE PrefixSum(_, _, _, _)
PrefixSum(x, i, c, n) ==
  IF n = 0 THEN 0 ELSE PrefixSum(x, i, c, n - 1) + At(x, <<i, c, n - 1>>)

\* x with every element of the padded suffix [lengths[i], T) changed
PadSuffix(x, lengths, p) ==
  LET elem(idx) ==
        IF idx[3] >= lengths[idx[1] + 1]
          THEN At(x, idx) + p * (idx[3] + 1 + idx[2])
          ELSE At(x, idx)
  IN Tensor(x.shape, elem)

ValidLengths ==
  \A i \in 1..Len(aggLengths) : aggLengths[i] >= 1 /\ aggLengths[i] <= aggX.shape[3]

IsRamp(x, i) ==
  \A c \in 0..(x.shape[2] - 1), t \in 0..(x.shape[3] - 1) : At(x, <<i, c, t>>) = t

\* C1: for lengths within 1..T the aggregator returns a [B, C] tensor whose
\* entry [i, c] is the mean of x[i, c, 0..lengths[i]-1]; rewriting the padded
\* suffix leaves the result unchanged, and a time ramp averages to (L-1)/2.
C1_AverageIsPrefixMean ==
  (aggStatus = "returned" /\ ValidLengths) =>
    LET B == aggX.shape[1]
        C == aggX.shape[2]
    IN /\ aggOut.shape = <<B, C>>
       /\ \A i \in 0..(B - 1), c \in 0..(C - 1) :
            LET m == At(aggOut, <<i, c>>)
                L == aggLengths[i + 1]
            IN /\ m[2] > 0
               /\ m[1] * L = PrefixSum(aggX, i, c, L) * m[2]
               /\ IsRamp(aggX, i) => 2 * m[1] = (L - 1) * m[2]
       /\ \A p \in 1..MaxPad :
            _average_batch(PadSuffix(aggX, aggLengths, p), aggLengths, B) = aggOut

\* two examples of different valid lengths, one of them padded with non-zero
\* values, the other a time ramp of length at least 2
C1_Witness ==
  /\ aggStatus = "returned"
  /\ ValidLengths
  /\ aggX.shape[1] = 2
  /\ aggX.shape[2] = 2
  /\ aggLengths[1] < aggX.shape[3]
  /\ aggLengths[1] # aggLengths[2]
  /\ At(aggX, <<0, 0, aggX.shape[3] - 1>>) > 0
  /\ IsRamp(aggX, 1)
  /\ aggLengths[2] >= 2

\* ------------------------------------------------- claims on forward calls
Range(q) == {q[i] : i \in 1..Len(q)}

FB == fwdClip.shape[1]
FT == fwdClip.shape[3]
TrunkDim == build.net.stage_out_channels
ChannelsOut == Last(build.net.num_channels)
IsSingle == build.net.tcn_class = "TCN"
IsMulti == build.net.tcn_class = "MultiscaleMultibranchTCN"

\* the length the caller supplied for example b (0-based)
Supplied(b) ==
  IF fwdLengths.kind = "int" THEN fwdLengths.val[1] ELSE fwdLengths.val[b + 1]

\* C2: in raw mode the single-scale backbone runs neither the cascade nor the
\* aggregator and returns a [B, trunkDim, 1, T] tensor whose element
\* [b, c, 0, t] is the sequence feature's value for (b, t, c).
C2_RawIsChannelsFirst ==
  (fwd.status = "returned" /\ IsSingle /\ ~build.net.extract_feats) =>
    /\ "tcn_trunk" \notin Range(fwd.calls)
    /\ "consensus_func" \notin Range(fwd.calls)
    /\ Len(fwd.tcnRet) = 1
    /\ fwd.tcnRet[1].shape = <<FB, TrunkDim, 1, FT>>
    /\ \A b \in 0..(FB - 1), c \in 0..(TrunkDim - 1), t \in 0..(FT - 1) :
         At(fwd.tcnRet[1], <<b, c, 0, t>>) = At(fwd.seq, <<b, t, c>>)

\* C3: in raw mode the multi-scale backbone skips its branches, returns the
\* input transposed and reshaped to [B, trunkDim, 1, T], and that is what the
\* single-scale backbone returns in raw mode for the same input and lengths.
C3_RawBackbonesAgree ==
  (fwd.status = "returned" /\ IsMulti /\ ~build.net.extract_feats) =>
    /\ "mb_ms_tcn" \notin Range(fwd.calls)
    /\ Len(fwd.tcnRet) = 1
    /\ fwd.tcnRet[1].shape = <<FB, TrunkDim, 1, FT>>
    /\ \A b \in 0..(FB - 1), c \in 0..(TrunkDim - 1), t \in 0..(FT - 1) :
         At(fwd.tcnRet[1], <<b, c, 0, t>>) = At(fwd.seq, <<b, t, c>>)
    /\ fwd.tcnRet = TCN_forward(build.net, fwd.seq, fwd.lens, FB, FALSE).ret

\* sum of x[b, c, 0, t] over t in 0..n-1 of a 4-D feature tensor
RECURSIVE FeaturePrefixSum(_, _, _, _)
FeaturePrefixSum(x, b, c, n) ==
  IF n = 0 THEN 0 ELSE FeaturePrefixSum(x, b, c, n - 1) + At(x, <<b, c, 0, n - 1>>)

\* C4: in extraction mode with one kernel size a forward call returns the
\* cascade output as [B, channelsOut, 1, T] together with the [B, channelsOut]
\* aggregate of that same output over the supplied lengths, channelsOut being
\* the last configured channel width.
C4_ExtractReturnsBoth ==
  (fwd.status = "returned" /\ IsSingle /\ build.net.extract_feats) =>
    LET rec == buildArgs.config.rec
    IN /\ ChannelsOut =
            HiddenDim * Len(rec["tcn_kernel_size"]) * rec["tcn_width_mult"]
       /\ Range(fwd.calls) = {"frontend3D", "trunk", "tcn_trunk", "consensus_func"}
       /\ Len(fwd.result) = 2
       /\ fwd.result[1].shape = <<FB, ChannelsOut, 1, FT>>
       /\ fwd.result[1].data = tcn_trunk(transpose(fwd.seq, 1, 2), ChannelsOut).data
       /\ fwd.result[2].shape = <<FB, ChannelsOut>>
       /\ \A b \in 0..(FB - 1), c \in 0..(ChannelsOut - 1) :
            LET m == At(fwd.result[2], <<b, c>>)
                L == Supplied(b)
            IN (L >= 1 /\ L <= FT) =>
                 /\ m[2] > 0
                 /\ m[1] * L = FeaturePrefixSum(fwd.result[1], b, c, L) * m[2]

\* two examples of different valid lengths through a two-channel cascade
C4_Witness ==
  /\ fwd.status = "returned"
  /\ IsSingle
  /\ build.net.extract_feats
  /\ FB = 2
  /\ FT = 3
  /\ ChannelsOut = 2
  /\ fwdLengths.kind = "list"
  /\ fwdLengths.val = <<2, 3>>

\* C7: a forward call in extraction mode with some length beyond the
\* sequence length fails with an error instead of returning an aggregate.
C7_LongLengthRaises ==
  (fwd.status # "idle" /\ IsSingle /\ build.net.extract_feats
     /\ \E b \in 0..(FB - 1) : Supplied(b) > FT) =>
    fwd.status = "raised"

\* frame t of example b of the front-end's output, as a batch of one row
Frame(fe, b, t) ==
  LET elem(idx) == At(fe, <<b, idx[2], t, idx[3], idx[4]>>)
  IN Tensor(<<1, fe.shape[2], fe.shape[4], fe.shape[5]>>, elem)

\* C8: merging the batch and time axes puts frame t of example b at flat row
\* b*T + t with its content unchanged, and the split back sends row b*T + t to
\* [b, t]: the sequence feature at [b, t] is the encoding of that frame.
C8_FlattenRoundTrip ==
  (fwd.status # "idle") =>
    LET fe == fwd.fe
        C == fe.shape[2]
        h == fe.shape[4]
        w == fe.shape[5]
    IN /\ fe.shape[1] = FB
       /\ fe.shape[3] = FT
       /\ fwd.flat.shape = <<FB * FT, C, h, w>>
       /\ \A b \in 0..(FB - 1), t \in 0..(FT - 1), c \in 0..(C - 1),
             i \in 0..(h - 1), j \in 0..(w - 1) :
            At(fwd.flat, <<b * FT + t, c, i, j>>) = At(fe, <<b, c, t, i, j>>)
       /\ fwd.seq.shape = <<FB, FT, TrunkDim>>
       /\ \A b \in 0..(FB - 1), t \in 0..(FT - 1), d \in 0..(TrunkDim - 1) :
            /\ At(fwd.seq, <<b, t, d>>) = At(fwd.enc, <<b * FT + t, d, 0, 0>>)
            /\ At(fwd.seq, <<b, t, d>>) = At(trunk(Frame(fe, b, t), TrunkDim), <<0, d, 0, 0>>)

\* a clip of two examples and three frames
C8_Witness ==
  /\ fwd.status = "returned"
  /\ FB = 2
  /\ FT = 3
  /\ fwd.flat.shape[1] = 6
  /\ fwd.seq.shape = <<2, 3, TrunkDim>>

\* C9: in every forward call the linear head tcn_output, though constructed,
\* is never applied, and the orchestrator returns what its backbone returned.
C9_HeadNeverApplied ==
  (fwd.status = "returned") =>
    /\ "tcn_output" \in build.net.modules
    /\ "tcn_output" \notin Range(fwd.calls)
    /\ fwd.result = fwd.tcnRet
    /\ fwd.result =
         (IF IsSingle
            THEN TCN_forward(build.net, fwd.seq, fwd.lens, FB, build.net.extract_feats)
            ELSE MultiscaleMultibranchTCN_forward(build.net, fwd.seq, fwd.lens, FB,
                                                  build.net.extract_feats)).ret

\* a raw-mode call of the single-scale backbone, where the source keeps the
\* head's call commented out
C9_Witness ==
  /\ fwd.status = "returned"
  /\ IsSingle
  /\ ~build.net.extract_feats
  /\ "tcn_output" \in build.net.modules
  /\ FB = 2
  /\ FT = 2

\* C10 as stated: with more than one kernel size no forward call runs the
\* multi-branch cascade mb_ms_tcn, whatever the extract_feats flag.
C10_BranchesNeverRun ==
  (fwd.status # "idle" /\ IsMulti) => "mb_ms_tcn" \notin Range(fwd.calls)

\* C10 as amended: with more than one kernel size a forward call runs the
\* multi-branch cascade exactly when the network was built with extract_feats
\* true; it returns the cascade output with a singleton axis, and no aggregate.
C10_BranchesRunIffExtract ==
  (fwd.status # "idle" /\ IsMulti) =>
    /\ build.net.extract_feats = buildArgs.extract_feats
    /\ ("mb_ms_tcn" \in Range(fwd.calls)) <=> buildArgs.extract_feats
    /\ buildArgs.extract_feats =>
         /\ Len(fwd.result) = 1
         /\ fwd.result[1].shape = <<FB, ChannelsOut, 1, FT>>

\* a multi-kernel network built for extraction whose forward call ran mb_ms_tcn
C10_Witness ==
  /\ fwd.status = "returned"
  /\ IsMulti
  /\ buildArgs.extract_feats
  /\ "mb_ms_tcn" \in Range(fwd.calls)
  /\ Len(buildArgs.config.rec["tcn_kernel_size"]) > 1

\* ------------------------------------------------- claims on the factory
HasRecord == buildArgs.config.exists /\ buildArgs.config.content = "record"
CompleteConfig == HasRecord /\ DOMAIN buildArgs.config.rec = AllFields
SubNetworks == {"ShuffleNetV2", "trunk", "frontend3D", "tcn_trunk", "mb_ms_tcn", "tcn_output"}
WeightSteps == {"torch.load", "load_state_dict"}

\* C5 as stated: a width multiplier outside {0.5, 1.0, 1.5, 2.0} makes
\* construction fail with a ConfigurationError before any sub-network is
\* constructed or weights are loaded; a value inside passes the check.
C5_BadWidthIsConfigurationError ==
  (build.status # "idle" /\ CompleteConfig) =>
    IF buildArgs.config.rec["width_mult"] \notin {2, 4, 6, 8}
      THEN /\ build.status = "raised"
           /\ build.err = "ConfigurationError"
           /\ Range(build.calls) \cap (SubNetworks \cup WeightSteps) = {}
           /\ build.net = NoNet
      ELSE "ShuffleNetV2" \in Range(build.calls)

\* C5 as amended: the failure is the AssertionError of the assert statement
\* (the source defines no ConfigurationError); the rest as stated.
C5_BadWidthIsAssertionError ==
  (build.status # "idle" /\ CompleteConfig) =>
    IF buildArgs.config.rec["width_mult"] \notin {2, 4, 6, 8}
      THEN /\ build.status = "raised"
           /\ build.err = "AssertionError"
           /\ Range(build.calls) \cap (SubNetworks \cup WeightSteps) = {}
           /\ ~build.weightsLoaded
           /\ build.net = NoNet
      ELSE /\ build.err # "AssertionError"
           /\ "ShuffleNetV2" \in Range(build.calls)

\* width multiplier 0.75 with a checkpoint to load
C5_Witness ==
  /\ build.status = "raised"
  /\ CompleteConfig
  /\ buildArgs.config.rec["width_mult"] = 3
  /\ buildArgs.weights = "ok"
  /\ build.calls = <<"load_json", "Lipreading">>

Unusable ==
  \/ ~buildArgs.config.exists
  \/ buildArgs.config.content \in {"unreadable", "notjson", "notobject"}
  \/ HasRecord /\ DOMAIN buildArgs.config.rec # AllFields

\* C6 as stated: a config path that resolves to no readable record, or a
\* record lacking a required field, fails with a ConfigurationError; no
\* Lipreading network is constructed, no weights loaded, no model returned.
C6_UnusableIsConfigurationError ==
  (build.status # "idle" /\ Unusable) =>
    /\ build.status = "raised"
    /\ build.err = "ConfigurationError"
    /\ "Lipreading" \notin Range(build.calls)
    /\ Range(build.calls) \cap WeightSteps = {}
    /\ build.net = NoNet

\* C6 as amended: the failure is an UnboundLocalError (no file at the path),
\* an OSError (a file that cannot be opened), a ValueError (not JSON), a
\* TypeError (JSON that is no object) or a KeyError (a field absent), not a
\* ConfigurationError; the rest as stated.
C6_UnusableRaisesBeforeConstruction ==
  (build.status # "idle" /\ Unusable) =>
    /\ build.status = "raised"
    /\ build.err =
         (IF ~buildArgs.config.exists THEN "UnboundLocalError"
          ELSE IF buildArgs.config.content = "unreadable" THEN "OSError"
          ELSE IF buildArgs.config.content = "notjson" THEN "ValueError"
          ELSE IF buildArgs.config.content = "notobject" THEN "TypeError"
          ELSE "KeyError")
    /\ "Lipreading" \notin Range(build.calls)
    /\ Range(build.calls) \cap (SubNetworks \cup WeightSteps) = {}
    /\ ~build.weightsLoaded
    /\ build.net = NoNet

\* a record lacking only width_mult, the last field read, with a checkpoint
C6_Witness ==
  /\ build.status = "raised"
  /\ HasRecord
  /\ DOMAIN buildArgs.config.rec = AllFields \ {"width_mult"}
  /\ buildArgs.weights = "ok"
  /\ build.err = "KeyError"

====
